---------------------------- MODULE Spec2Model ----------------------------
(***************************************************************************)
(* blog-automation: the SEO scoring engine (lib/seo/optimizer), the        *)
(* readability scorer and bulk generator (lib/ai/blog-generator.ts) and    *)
(* the POST /api/generate/blog-post route.                                 *)
(*                                                                         *)
(* A JavaScript string is a sequence of one-character strings.  A number   *)
(* with two decimals (keyword density) is kept in hundredths.              *)
(***************************************************************************)
EXTENDS Integers, Sequences, FiniteSets, TLC

VARIABLES
    pc,          \* position of the operation under way
    params,      \* the argument of the operation under way
    result,      \* its return value, once it has returned
    i,           \* generateBulkPosts: index of the item the loop is at
    posts,       \* generateBulkPosts: the posts array
    outcomes,    \* generateBulkPosts: what each generateBlogPost call did (history)
    generated,   \* route: the call of generateBlogPost: its state, arguments, settled value
    calls,       \* route: how often generateBlogPost and analyzeSEO were invoked
    response     \* route: the NextResponse returned

vars == <<pc, params, result, i, posts, outcomes, generated, calls, response>>

None == "none"

(***************************************************************************)
(* String primitives of the JavaScript runtime.                            *)
(***************************************************************************)
UpperToLower ==
    [A |-> "a", B |-> "b", C |-> "c", D |-> "d", E |-> "e", F |-> "f", G |-> "g",
     H |-> "h", I |-> "i", J |-> "j", K |-> "k", L |-> "l", M |-> "m", N |-> "n",
     O |-> "o", P |-> "p", Q |-> "q", R |-> "r", S |-> "s", T |-> "t", U |-> "u",
     V |-> "v", W |-> "w", X |-> "x", Y |-> "y", Z |-> "z"]

LowerLetters == {UpperToLower[c] : c \in DOMAIN UpperToLower}

\* String.prototype.toLowerCase
toLowerCase(s) ==
    [k \in 1..Len(s) |-> IF s[k] \in DOMAIN UpperToLower THEN UpperToLower[s[k]] ELSE s[k]]

\* String.prototype.includes
includes(s, sub) ==
    \E k \in 0..(Len(s) - Len(sub)) : SubSeq(s, k + 1, k + Len(sub)) = sub

\* the characters the regular expression class \s matches
WhiteSpace == {" ", "\n", "\t"}

\* Array.prototype.filter is SelectSeq.

\* String.prototype.split(/[seps]+/): the pieces between maximal runs of
\* separator characters, in order, empty pieces at either end included.
\* A piece starts at position 1 and after the last character of each run.
split(s, seps) ==
    LET isStart(k) == \/ k = 1
                      \/ /\ s[k - 1] \in seps
                         /\ (k > Len(s) \/ s[k] \notin seps)
        starts == SelectSeq([k \in 1..(Len(s) + 1) |-> k], isStart)
        stop(k) == CHOOSE e \in k..(Len(s) + 1) :
                       /\ e > Len(s) \/ s[e] \in seps
                       /\ \A m \in k..(e - 1) : s[m] \notin seps
    IN  [j \in 1..Len(starts) |-> SubSeq(s, starts[j], stop(starts[j]) - 1)]

\* String.prototype.trim
trim(s) ==
    LET inner == {k \in 1..Len(s) : s[k] \notin WhiteSpace}
    IN  IF inner = {} THEN <<>>
        ELSE SubSeq(s, CHOOSE k \in inner : \A m \in inner : k <= m,
                       CHOOSE k \in inner : \A m \in inner : k >= m)

\* Math.round of the rational n/d, d > 0: the nearest integer, a tie going up
MathRound(n, d) == (2 * n + d) \div (2 * d)

Max(a, b) == IF a >= b THEN a ELSE b
Min(a, b) == IF a <= b THEN a ELSE b

\* the value of a destructured field, or its default when the field is omitted
Field(obj, name, default) == IF name \in DOMAIN obj THEN obj[name] ELSE default

(***************************************************************************)
(* lib/seo/optimizer: thresholds                                           *)
(***************************************************************************)
TARGET_KEYWORD_DENSITY == [min |-> 1, max |-> 3]
TARGET_TITLE_LENGTH == [min |-> 30, max |-> 60]
TARGET_META_DESCRIPTION_LENGTH == [min |-> 120, max |-> 160]
TARGET_WORD_COUNT == 2000
TARGET_INTERNAL_LINKS == [min |-> 3, max |-> 7]
TARGET_EXTERNAL_LINKS == [min |-> 3]
TARGET_READABILITY_SCORE == 60

\* the keys of SEOChecks, in declaration order
SEOChecks ==
    <<"keywordDensity", "keywordInTitle", "keywordInMetaDescription", "keywordInH1",
      "keywordInFirstParagraph", "titleLength", "metaDescriptionLength",
      "headingStructure", "internalLinkCount", "externalLinkCount", "wordCount",
      "readabilityScore", "hasFAQs", "hasCallToAction", "hasImages", "imageAltTags">>

(***************************************************************************)
(* lib/seo/optimizer: the checks                                           *)
(***************************************************************************)
\* the keyword compared with the whole word instead of searched in it
calculateKeywordDensity_exactMatch(content, keyword) ==
    LET words == SelectSeq(split(toLowerCase(content), WhiteSpace), LAMBDA w : Len(w) > 0)
        keywordLower == toLowerCase(keyword)
        keywordMatches == Len(SelectSeq(words, LAMBDA w : w = keywordLower))
    IN  IF Len(words) = 0 THEN 0
        ELSE MathRound(keywordMatches * 100 * 100, Len(words))

\* the keyword density in hundredths of a percent:
\* Math.round((keywordMatches / words.length) * 100 * 100) / 100
calculateKeywordDensity(content, keyword) ==
    LET words == SelectSeq(split(toLowerCase(content), WhiteSpace), LAMBDA w : Len(w) > 0)
        keywordLower == toLowerCase(keyword)
        keywordMatches == Len(SelectSeq(words, LAMBDA w : includes(w, keywordLower)))
    IN  IF Len(words) = 0 THEN 0
        ELSE MathRound(keywordMatches * 100 * 100, Len(words))

\* the lower threshold forgotten
checkKeywordDensity_noMin(content, keyword) ==
    calculateKeywordDensity(content, keyword) <= TARGET_KEYWORD_DENSITY.max * 100

checkKeywordDensity(content, keyword) ==
    LET density == calculateKeywordDensity(content, keyword)
    IN  /\ density >= TARGET_KEYWORD_DENSITY.min * 100
        /\ density <= TARGET_KEYWORD_DENSITY.max * 100

\* content.split(/\n\n+/)[0] || content
firstParagraph(content) ==
    LET breaks == {k \in 1..(Len(content) - 1) : content[k] = "\n" /\ content[k + 1] = "\n"}
        first == IF breaks = {} THEN content
                 ELSE SubSeq(content, 1, (CHOOSE k \in breaks : \A m \in breaks : k <= m) - 1)
    IN  IF first = <<>> THEN content ELSE first

checkKeywordInFirstParagraph(content, keyword) ==
    includes(toLowerCase(firstParagraph(content)), toLowerCase(keyword))

\* the walk without the test for an H1
validateHeadingStructure_noH1(headings) ==
    LET RECURSIVE walk(_, _)
        walk(k, previousLevel) ==
            IF k > Len(headings) THEN TRUE
            ELSE IF headings[k].level > previousLevel + 1 THEN FALSE
            ELSE walk(k + 1, headings[k].level)
    IN  IF Len(headings) = 0 THEN FALSE ELSE walk(1, 1)

validateHeadingStructure(headings) ==
    LET RECURSIVE walk(_, _)
        walk(k, previousLevel) ==
            IF k > Len(headings) THEN TRUE
            ELSE IF headings[k].level > previousLevel + 1 THEN FALSE
            ELSE walk(k + 1, headings[k].level)
    IN  IF Len(headings) = 0 THEN FALSE
        ELSE IF ~(\E k \in 1..Len(headings) : headings[k].level = 1) THEN FALSE
        ELSE walk(1, 1)

\* content.match(/!\[.*?\]\(.*?\)/g)?.length > 0 : "![", then "](" and ")" later
\* on the same line ("." matches no line terminator)
matchesMarkdownImage(content) ==
    LET at(k, ch) == k <= Len(content) /\ content[k] = ch
        opens == {k \in 1..Len(content) : at(k, "!") /\ at(k + 1, "[")}
        mids == {k \in 1..Len(content) : at(k, "]") /\ at(k + 1, "(")}
        closes == {k \in 1..Len(content) : at(k, ")")}
    IN  \E a \in opens : \E b \in mids : \E c \in closes :
            /\ a + 2 <= b /\ b + 2 <= c
            /\ \A k \in (a + 2)..(c - 1) : content[k] # "\n"

\* the checks object of analyzeSEO; omitted parameters take their defaults
seoChecks(p) ==
    LET content == p.content
        title == p.title
        metaDescription == Field(p, "metaDescription", <<>>)
        keyword == p.keyword
        headings == p.headings
        faqs == Field(p, "faqs", <<>>)
        internalLinks == Field(p, "internalLinks", <<>>)
        externalLinks == Field(p, "externalLinks", <<>>)
    IN  [keywordDensity |-> checkKeywordDensity(content, keyword),
         keywordInTitle |-> includes(toLowerCase(title), toLowerCase(keyword)),
         keywordInMetaDescription |->
             includes(toLowerCase(metaDescription), toLowerCase(keyword)),
         keywordInH1 |->
             \E k \in 1..Len(headings) :
                 /\ headings[k].level = 1
                 /\ includes(toLowerCase(headings[k].text), toLowerCase(keyword)),
         keywordInFirstParagraph |-> checkKeywordInFirstParagraph(content, keyword),
         titleLength |->
             Len(title) >= TARGET_TITLE_LENGTH.min /\ Len(title) <= TARGET_TITLE_LENGTH.max,
         metaDescriptionLength |->
             /\ Len(metaDescription) >= TARGET_META_DESCRIPTION_LENGTH.min
             /\ Len(metaDescription) <= TARGET_META_DESCRIPTION_LENGTH.max,
         headingStructure |-> validateHeadingStructure(headings),
         internalLinkCount |->
             /\ Len(internalLinks) >= TARGET_INTERNAL_LINKS.min
             /\ Len(internalLinks) <= TARGET_INTERNAL_LINKS.max,
         externalLinkCount |-> Len(externalLinks) >= TARGET_EXTERNAL_LINKS.min,
         wordCount |-> p.wordCount >= TARGET_WORD_COUNT,
         readabilityScore |-> p.readabilityScore >= TARGET_READABILITY_SCORE,
         hasFAQs |-> Len(faqs) >= 3,
         hasCallToAction |->
             \/ includes(toLowerCase(content), <<"c", "t", "a">>)
             \/ includes(toLowerCase(content),
                         <<"c", "a", "l", "l", " ", "t", "o", " ", "a", "c", "t", "i", "o", "n">>)
             \/ includes(toLowerCase(content),
                         <<"g", "e", "t", " ", "s", "t", "a", "r", "t", "e", "d">>)
             \/ includes(toLowerCase(content),
                         <<"l", "e", "a", "r", "n", " ", "m", "o", "r", "e">>),
         hasImages |->
             \/ includes(content, <<"<", "i", "m", "g">>)
             \/ includes(content, <<"!", "[">>),
         imageAltTags |->
             \/ includes(content, <<"a", "l", "t", "=">>)
             \/ matchesMarkdownImage(content)]

\* A recommendation is its template and the values interpolated into it.
\* generateRecommendations, the ifs on the keyword checks
keywordRecommendations(checks, density, keyword) ==
    (IF ~checks.keywordDensity
     THEN IF density < TARGET_KEYWORD_DENSITY.min * 100
          THEN << <<"Add more mentions of \"{keyword}\" naturally (currently {density}%, aim for 1-3%)",
                    keyword, density>> >>
          ELSE << <<"Reduce keyword usage (currently {density}%, aim for 1-3%) to avoid keyword stuffing",
                    density>> >>
     ELSE <<>>)
    \o (IF ~checks.keywordInTitle
        THEN << <<"Include your keyword \"{keyword}\" in the title", keyword>> >> ELSE <<>>)
    \o (IF ~checks.keywordInMetaDescription
        THEN << <<"Add your keyword \"{keyword}\" to the meta description", keyword>> >>
        ELSE <<>>)
    \o (IF ~checks.keywordInH1
        THEN << <<"Include your keyword in the main H1 heading">> >> ELSE <<>>)
    \o (IF ~checks.keywordInFirstParagraph
        THEN << <<"Mention \"{keyword}\" in the first paragraph for better SEO", keyword>> >>
        ELSE <<>>)

\* generateRecommendations, the ifs on lengths, headings and links
structureRecommendations(checks) ==
    (IF ~checks.titleLength
        THEN << <<"Optimize title length (30-60 characters)">> >> ELSE <<>>)
    \o (IF ~checks.metaDescriptionLength
        THEN << <<"Adjust meta description to 120-160 characters for optimal display">> >>
        ELSE <<>>)
    \o (IF ~checks.headingStructure
        THEN << <<"Fix heading structure: Use H1>H2>H3 hierarchy without skipping levels">> >>
        ELSE <<>>)
    \o (IF ~checks.internalLinkCount
        THEN << <<"Add {min}-{max} internal links to related content",
                  TARGET_INTERNAL_LINKS.min, TARGET_INTERNAL_LINKS.max>> >>
        ELSE <<>>)
    \o (IF ~checks.externalLinkCount
        THEN << <<"Include at least {min} authoritative external links",
                  TARGET_EXTERNAL_LINKS.min>> >>
        ELSE <<>>)

\* generateRecommendations, the ifs on the body of the post
contentRecommendations(checks) ==
    (IF ~checks.wordCount
        THEN << <<"Expand content to at least {words} words for better rankings",
                  TARGET_WORD_COUNT>> >>
        ELSE <<>>)
    \o (IF ~checks.readabilityScore
        THEN << <<"Improve readability (aim for score of {score}+). Use shorter sentences and simpler words.",
                  TARGET_READABILITY_SCORE>> >>
        ELSE <<>>)
    \o (IF ~checks.hasFAQs
        THEN << <<"Add an FAQ section with at least 3 common questions">> >> ELSE <<>>)
    \o (IF ~checks.hasCallToAction
        THEN << <<"Add a clear call-to-action at the end of the post">> >> ELSE <<>>)
    \o (IF ~checks.hasImages
        THEN << <<"Add relevant images to make the content more engaging">> >> ELSE <<>>)
    \o (IF ~checks.imageAltTags
        THEN << <<"Ensure all images have descriptive alt text for accessibility and SEO">> >>
        ELSE <<>>)

\* a slip in the order of the pushes
generateRecommendations_reordered(checks, density, keyword) ==
    keywordRecommendations(checks, density, keyword)
    \o contentRecommendations(checks)
    \o structureRecommendations(checks)

generateRecommendations(checks, density, keyword) ==
    keywordRecommendations(checks, density, keyword)
    \o structureRecommendations(checks)
    \o contentRecommendations(checks)

\* Math.floor in place of Math.round
calculateSEOScore_floor(checks) ==
    (Cardinality({c \in DOMAIN checks : checks[c]}) * 100) \div Cardinality(DOMAIN checks)

\* Math.round((passedChecks / totalChecks) * 100)
calculateSEOScore(checks) ==
    LET totalChecks == Cardinality(DOMAIN checks)
        passedChecks == Cardinality({c \in DOMAIN checks : checks[c]})
    IN  MathRound(passedChecks * 100, totalChecks)

analyzeSEO(p) ==
    LET checks == seoChecks(p)
        keywordDensity == calculateKeywordDensity(p.content, p.keyword)
        recommendations == generateRecommendations(checks, keywordDensity, p.keyword)
        score == calculateSEOScore(checks)
    IN  [score |-> score,
         checks |-> checks,
         recommendations |-> recommendations,
         keywordDensity |-> keywordDensity]

(***************************************************************************)
(* Variables an operation does not use keep their initial values.          *)
(***************************************************************************)
bulkVars == <<i, posts, outcomes>>
routeVars == <<generated, calls, response>>

BulkIdle == i = 0 /\ posts = <<>> /\ outcomes = <<>>
RouteIdle == generated = [state |-> "not called"] /\ calls = [generate |-> 0, analyze |-> 0] /\ response = None

(***************************************************************************)
(* analyzeSEO on Content Artifacts                                         *)
(***************************************************************************)
\* how many one-letter filler words the long sample contents hold
FillerWords == 39

Repeat(piece, n) == [k \in 1..(n * Len(piece)) |-> piece[((k - 1) % Len(piece)) + 1]]

KeywordSeo == <<"s", "e", "o">>
LearnMore == <<" ", "L", "e", "a", "r", "n", " ", "M", "o", "r", "e">>
MarkdownImage == <<" ", "!", "[", "a", "]", "(", "b", ")">>
Body == <<"S", "E", "O">> \o Repeat(<<" ", "x">>, FillerWords)

SampleContents ==
    { <<>>,
      Body \o LearnMore \o MarkdownImage,
      Body,
      <<"i", "n", "t", "r", "o", "\n", "\n">> \o Body \o LearnMore \o MarkdownImage,
      <<"s", "e", "o", " ", "S", "e", "o", " ", "C", "T", "A", " ",
        "<", "i", "m", "g", " ", "a", "l", "t", "=">>,
      <<"x", " ", "!", "[", "a">> }

SampleTitles ==
    { <<>>,
      <<"S", "e", "o">>,
      <<"S", "E", "O">> \o Repeat(<<"x">>, TARGET_TITLE_LENGTH.min - 3),
      Repeat(<<"x">>, TARGET_TITLE_LENGTH.max + 1) }

SampleMetaDescriptions ==
    { <<"S", "E", "O">> \o Repeat(<<"x">>, TARGET_META_DESCRIPTION_LENGTH.min - 3),
      Repeat(<<"x">>, TARGET_META_DESCRIPTION_LENGTH.max + 1) }

Heading(level, text) == [level |-> level, text |-> text]

SampleHeadings ==
    { <<>>,
      <<Heading(1, <<"S", "e", "o", " ", "x">>), Heading(2, <<"x">>)>>,
      <<Heading(1, <<"x">>), Heading(3, <<"s", "e", "o">>)>>,
      <<Heading(2, <<"s", "e", "o">>)>> }

Link == <<"u">>
Faq == [question |-> <<"q">>, answer |-> <<"a">>]
ExternalLink == [url |-> <<"u">>, text |-> <<"t">>]

\* the optional parameters of analyzeSEO, each omitted or given
OptionalParams ==
    { [f \in fs |-> CASE f = "metaDescription" -> md
                      [] f = "faqs" -> Repeat(<<Faq>>, 3)
                      [] f = "internalLinks" -> Repeat(<<Link>>, nInternal)
                      [] f = "externalLinks" -> Repeat(<<ExternalLink>>, TARGET_EXTERNAL_LINKS.min)] :
        fs \in SUBSET {"metaDescription", "faqs", "internalLinks", "externalLinks"},
        md \in SampleMetaDescriptions,
        nInternal \in {TARGET_INTERNAL_LINKS.min, TARGET_INTERNAL_LINKS.max + 1} }

Artifacts ==
    { [content |-> c, title |-> t, keyword |-> kw, headings |-> h,
       wordCount |-> wc, readabilityScore |-> rs] @@ opt :
        c \in SampleContents, t \in SampleTitles, kw \in {KeywordSeo, <<>>},
        h \in SampleHeadings, wc \in {0, TARGET_WORD_COUNT + 200},
        rs \in {0, TARGET_READABILITY_SCORE + 10}, opt \in OptionalParams }

InitSEO ==
    /\ pc = "analyzeSEO"
    /\ params \in Artifacts
    /\ result = None
    /\ BulkIdle /\ RouteIdle

AnalyzeSEO ==
    /\ pc = "analyzeSEO"
    /\ result' = analyzeSEO(params)
    /\ pc' = "analyzed"
    /\ UNCHANGED <<params, bulkVars, routeVars>>

NextSEO == AnalyzeSEO

SpecSEO == InitSEO /\ [][NextSEO]_vars

(***************************************************************************)
(* Properties of analyzeSEO                                                *)
(***************************************************************************)
Analyzed == pc = "analyzed"
PassedChecks == Cardinality({c \in DOMAIN result.checks : result.checks[c]})
CheckNames == {SEOChecks[k] : k \in 1..Len(SEOChecks)}

\* C1: the report of analyzeSEO has exactly the 16 named checks, each a
\* boolean, and its score is the integer nearest to 100 * passedChecks / 16
\* (a tie going up), hence an integer in 0..100.
C1_ScoreIsRoundedFraction ==
    Analyzed =>
        /\ DOMAIN result.checks = CheckNames
        /\ Cardinality(DOMAIN result.checks) = 16
        /\ \A c \in CheckNames : result.checks[c] \in BOOLEAN
        /\ result.score \in 0..100
        /\ 32 * result.score <= 200 * PassedChecks + 16
        /\ 200 * PassedChecks + 16 < 32 * (result.score + 1)

\* 14 passed checks give 88
C1_Witness == Analyzed /\ PassedChecks = 14 /\ result.score = 88

\* the message templates of each check
RecommendationsOf ==
    [keywordDensity |->
         {"Add more mentions of \"{keyword}\" naturally (currently {density}%, aim for 1-3%)",
          "Reduce keyword usage (currently {density}%, aim for 1-3%) to avoid keyword stuffing"},
     keywordInTitle |-> {"Include your keyword \"{keyword}\" in the title"},
     keywordInMetaDescription |-> {"Add your keyword \"{keyword}\" to the meta description"},
     keywordInH1 |-> {"Include your keyword in the main H1 heading"},
     keywordInFirstParagraph |-> {"Mention \"{keyword}\" in the first paragraph for better SEO"},
     titleLength |-> {"Optimize title length (30-60 characters)"},
     metaDescriptionLength |->
         {"Adjust meta description to 120-160 characters for optimal display"},
     headingStructure |->
         {"Fix heading structure: Use H1>H2>H3 hierarchy without skipping levels"},
     internalLinkCount |-> {"Add {min}-{max} internal links to related content"},
     externalLinkCount |-> {"Include at least {min} authoritative external links"},
     wordCount |-> {"Expand content to at least {words} words for better rankings"},
     readabilityScore |->
         {"Improve readability (aim for score of {score}+). Use shorter sentences and simpler words."},
     hasFAQs |-> {"Add an FAQ section with at least 3 common questions"},
     hasCallToAction |-> {"Add a clear call-to-action at the end of the post"},
     hasImages |-> {"Add relevant images to make the content more engaging"},
     imageAltTags |->
         {"Ensure all images have descriptive alt text for accessibility and SEO"}]

\* the failed checks, in declaration order
FailedChecks == SelectSeq(SEOChecks, LAMBDA c : ~result.checks[c])

\* C2: recommendations holds one message per failed check and none for a
\* passed one, in the declaration order of the checks; it is empty exactly
\* when the score is 100.
C2_OneRecommendationPerFailedCheck ==
    Analyzed =>
        /\ Len(result.recommendations) = 16 - PassedChecks
        /\ Len(result.recommendations) = Len(FailedChecks)
        /\ \A k \in 1..Len(FailedChecks) :
               result.recommendations[k][1] \in RecommendationsOf[FailedChecks[k]]
        /\ \A j, k \in 1..Len(result.recommendations) :
               j # k => result.recommendations[j] # result.recommendations[k]
        /\ (result.recommendations = <<>>) <=> (result.score = 100)

\* only wordCount and hasFAQs fail: their two messages, in that order
C2_Witness ==
    /\ Analyzed
    /\ FailedChecks = <<"wordCount", "hasFAQs">>
    /\ Len(result.recommendations) = 2
    /\ result.score = 88

\* the artifact of C8: nothing but a keyword (and a title)
EmptyArtifact ==
    /\ params.content = <<>>
    /\ params.headings = <<>>
    /\ Field(params, "faqs", <<>>) = <<>>
    /\ Field(params, "internalLinks", <<>>) = <<>>
    /\ Field(params, "externalLinks", <<>>) = <<>>
    /\ "metaDescription" \notin DOMAIN params
    /\ params.wordCount = 0
    /\ params.readabilityScore = 0
    /\ params.keyword # <<>>

AllChecksFail ==
    /\ \A c \in CheckNames : result.checks[c] = FALSE
    /\ result.score = 0
    /\ result.keywordDensity = 0
    /\ Len(result.recommendations) = 16

\* C8 as stated: on an empty artifact with a non-empty keyword, whatever the
\* title, analyzeSEO returns a report in which all 16 checks are false, score
\* and keywordDensity are 0 and there are 16 recommendations.
C8_AsStated == (Analyzed /\ EmptyArtifact) => AllChecksFail

\* C8, amended: the same, for a title that does not contain the keyword and
\* is shorter than 30 or longer than 60 characters (an empty title is one).
C8_EmptyArtifactFailsAllChecks ==
    (/\ Analyzed
     /\ EmptyArtifact
     /\ ~includes(toLowerCase(params.title), toLowerCase(params.keyword))
     /\ (Len(params.title) < 30 \/ Len(params.title) > 60))
    => AllChecksFail

C8_Witness == Analyzed /\ EmptyArtifact /\ params.title = <<>> /\ AllChecksFail

(***************************************************************************)
(* calculateKeywordDensity on every short content                          *)
(***************************************************************************)
MaxContentLen == 6

SeqsUpTo(alphabet, n) == UNION {[1..k -> alphabet] : k \in 0..n}

DensityContents == SeqsUpTo({"a", "B", " ", "\n"}, MaxContentLen)
DensityKeywords == {<<>>, <<"a">>, <<"B">>, <<"a", "b">>}

InitDensity ==
    /\ pc = "calculateKeywordDensity"
    /\ params \in [content : DensityContents, keyword : DensityKeywords]
    /\ result = None
    /\ BulkIdle /\ RouteIdle

CalculateKeywordDensity ==
    /\ pc = "calculateKeywordDensity"
    /\ result' = calculateKeywordDensity(params.content, params.keyword)
    /\ pc' = "density"
    /\ UNCHANGED <<params, bulkVars, routeVars>>

NextDensity == CalculateKeywordDensity

SpecDensity == InitDensity /\ [][NextDensity]_vars

\* the tokens of a string: its maximal runs of non-whitespace, as <<first, last>>
Tokens(s) ==
    {t \in (1..Len(s)) \X (1..Len(s)) :
        /\ t[1] <= t[2]
        /\ \A k \in t[1]..t[2] : s[k] \notin WhiteSpace
        /\ (t[1] = 1 \/ s[t[1] - 1] \in WhiteSpace)
        /\ (t[2] = Len(s) \/ s[t[2] + 1] \in WhiteSpace)}

\* token t of s holds kw somewhere, letter case aside
TokenContains(s, t, kw) ==
    \E k \in t[1]..(t[2] - Len(kw) + 1) :
        \A j \in 1..Len(kw) : toLowerCase(<<s[k + j - 1]>>) = toLowerCase(<<kw[j]>>)

\* C7: the density is 100 * matches / totalTokens rounded to 2 decimals
\* (kept in hundredths: the nearest integer to 10000 * matches / totalTokens),
\* matches being the tokens that contain the lowercased keyword; it lies in
\* [0,100] and is 0 when there are no tokens.
C7_DensityIsRoundedShare ==
    pc = "density" =>
        LET total == Cardinality(Tokens(params.content))
            matches == Cardinality({t \in Tokens(params.content) :
                                       TokenContains(params.content, t, params.keyword)})
        IN  /\ result \in 0..(100 * 100)
            /\ total = 0 => result = 0
            /\ total > 0 =>
                   /\ 2 * total * result <= 2 * 100 * 100 * matches + total
                   /\ 2 * 100 * 100 * matches + total < 2 * total * (result + 1)

\* "B aB" and "a" on two lines, keyword "B": two of three tokens, 66.67
C7_Witness ==
    /\ pc = "density"
    /\ params.content = <<"B", " ", "a", "B", "\n", "a">>
    /\ params.keyword = <<"B">>
    /\ result = 6667

(***************************************************************************)
(* validateHeadingStructure on every short heading sequence                *)
(***************************************************************************)
MaxHeadings == 4
MaxLevel == 3

HeadingSequences ==
    {[k \in 1..Len(levels) |-> Heading(levels[k], <<"t">>)] :
        levels \in SeqsUpTo(1..MaxLevel, MaxHeadings)}

InitHeadings ==
    /\ pc = "validateHeadingStructure"
    /\ params \in HeadingSequences
    /\ result = None
    /\ BulkIdle /\ RouteIdle

ValidateHeadingStructure ==
    /\ pc = "validateHeadingStructure"
    /\ result' = validateHeadingStructure(params)
    /\ pc' = "validated"
    /\ UNCHANGED <<params, bulkVars, routeVars>>

NextHeadings == ValidateHeadingStructure

SpecHeadings == InitHeadings /\ [][NextHeadings]_vars

Levels == [k \in 1..Len(params) |-> params[k].level]

\* C3: validateHeadingStructure is true exactly for a non-empty sequence with
\* a level-1 heading in which no level exceeds the level before it (1 before
\* the first) by more than one; so [] false, [1] true, [1,3] false,
\* [1,2,1,2] true, [2] false.
C3_HeadingStructure ==
    pc = "validated" =>
        /\ result <=>
               /\ Len(params) > 0
               /\ \E k \in 1..Len(params) : params[k].level = 1
               /\ \A k \in 1..Len(params) :
                      params[k].level <= (IF k = 1 THEN 1 ELSE params[k - 1].level) + 1
        /\ Levels = <<>> => result = FALSE
        /\ Levels = <<1>> => result = TRUE
        /\ Levels = <<1, 3>> => result = FALSE
        /\ Levels = <<1, 2, 1, 2>> => result = TRUE
        /\ Levels = <<2>> => result = FALSE

C3_Witness == pc = "validated" /\ Levels = <<1, 2, 1, 2>> /\ result = TRUE

(***************************************************************************)
(* lib/ai/blog-generator.ts: the readability scorer                        *)
(***************************************************************************)
Vowels == {"a", "e", "i", "o", "u", "y"}

\* word.match(/[aeiouy]+/g): the number of maximal runs of vowels (null when none)
vowelRuns(word) ==
    Cardinality({k \in 1..Len(word) :
                    word[k] \in Vowels /\ (k = 1 \/ word[k - 1] \notin Vowels)})

countSyllables(text) ==
    LET letters == [k \in 1..Len(text) |->
                       IF toLowerCase(text)[k] \in LowerLetters
                       THEN toLowerCase(text)[k] ELSE " "]
        words == SelectSeq(split(letters, WhiteSpace), LAMBDA word : Len(word) > 0)
        RECURSIVE reduce(_, _)
        reduce(k, acc) ==
            IF k > Len(words) THEN acc
            ELSE IF Len(words[k]) <= 3 THEN reduce(k + 1, acc + 1)
            ELSE reduce(k + 1,
                        acc + Max(1, IF vowelRuns(words[k]) > 0 THEN vowelRuns(words[k]) ELSE 1))
    IN  reduce(1, 0)

SentenceEnds == {".", "!", "?"}

\* 206.835 - 1.015 * (words / sentences) - 84.6 * (syllables / words) as the
\* fraction FleschNumerator / FleschDenominator
FleschNumerator(sentences, words, syllables) ==
    206835 * sentences * words - 1015 * words * words - 84600 * syllables * sentences
FleschDenominator(sentences, words) == 1000 * sentences * words

\* the clamp forgotten
calculateReadability_unclamped(text) ==
    LET sentences == SelectSeq(split(text, SentenceEnds), LAMBDA s : Len(trim(s)) > 0)
        words == SelectSeq(split(text, WhiteSpace), LAMBDA w : Len(w) > 0)
        syllables == countSyllables(text)
    IN  IF Len(sentences) = 0 \/ Len(words) = 0 THEN 0
        ELSE MathRound(FleschNumerator(Len(sentences), Len(words), syllables),
                       FleschDenominator(Len(sentences), Len(words)))

calculateReadability(text) ==
    LET sentences == SelectSeq(split(text, SentenceEnds), LAMBDA s : Len(trim(s)) > 0)
        words == SelectSeq(split(text, WhiteSpace), LAMBDA w : Len(w) > 0)
        syllables == countSyllables(text)
    IN  IF Len(sentences) = 0 \/ Len(words) = 0 THEN 0
        ELSE Max(0, Min(100,
                 MathRound(FleschNumerator(Len(sentences), Len(words), syllables),
                           FleschDenominator(Len(sentences), Len(words)))))

(***************************************************************************)
(* calculateReadability on every short text                                *)
(***************************************************************************)
MaxTextLen == 6

ReadabilityTexts == SeqsUpTo({"A", "e", "b", " ", "."}, MaxTextLen)

InitReadability ==
    /\ pc = "calculateReadability"
    /\ params \in ReadabilityTexts
    /\ result = None
    /\ BulkIdle /\ RouteIdle

CalculateReadability ==
    /\ pc = "calculateReadability"
    /\ result' = calculateReadability(params)
    /\ pc' = "readability"
    /\ UNCHANGED <<params, bulkVars, routeVars>>

NextReadability == CalculateReadability

SpecReadability == InitReadability /\ [][NextReadability]_vars

\* the maximal runs of s, as <<first, last>>, of characters outside seps
Runs(s, seps) ==
    {t \in (1..Len(s)) \X (1..Len(s)) :
        /\ t[1] <= t[2]
        /\ \A k \in t[1]..t[2] : s[k] \notin seps
        /\ (t[1] = 1 \/ s[t[1] - 1] \in seps)
        /\ (t[2] = Len(s) \/ s[t[2] + 1] \in seps)}

\* the sentences: the runs between '.', '!' and '?' that are not blank
SentenceCount(text) ==
    Cardinality({t \in Runs(text, {".", "!", "?"}) :
                    \E k \in t[1]..t[2] : text[k] \notin WhiteSpace})

\* the whitespace-delimited words
WordCount(text) == Cardinality(Runs(text, WhiteSpace))

\* The syllables.  The words they are counted over are those of the spec's
\* section 4.1: the runs of letters of the lowercased text (non-letters read
\* as spaces).  A run of up to 3 letters counts 1; a longer one counts its
\* runs of vowels, at least 1.
SyllableCount(text) ==
    LET low == toLowerCase(text)
        letterRuns == Runs(low, {low[k] : k \in 1..Len(low)} \ LowerLetters)
        single == {t \in letterRuns :
                      \/ t[2] - t[1] + 1 <= 3
                      \/ \A k \in t[1]..t[2] : low[k] \notin Vowels}
        starts == {k \in 1..Len(low) :
                      /\ low[k] \in Vowels
                      /\ (k = 1 \/ low[k - 1] \notin Vowels)
                      /\ \E t \in letterRuns \ single : k \in t[1]..t[2]}
    IN  Cardinality(single) + Cardinality(starts)

LLMObjects ==
    { [title |-> o.title, slug |-> "slug", metaTitle |-> o.title,
       metaDescription |-> <<"S", "E", "O">> \o Repeat(<<"x">>, TARGET_META_DESCRIPTION_LENGTH.min - 3),
       content |-> o.content,
       headings |-> <<Heading(1, o.title), Heading(2, <<"x">>)>>,
       faqs |-> Repeat(<<Faq>>, 3),
       internalLinks |-> Repeat(<<Link>>, TARGET_INTERNAL_LINKS.min),
       externalLinks |-> Repeat(<<ExternalLink>>, TARGET_EXTERNAL_LINKS.min),
       wordCount |-> TARGET_WORD_COUNT, readabilityScore |-> TARGET_READABILITY_SCORE] :
        o \in { [title |-> <<"S", "e", "o">>,
                 content |-> <<"s", "e", "o", " ", "c", "t", "a", ".">>],
                [title |-> <<"x">>, content |-> <<>>] } }

\* what a failed call throws: an Error with its message, or some other value
ThrownValues ==
    { [instanceofError |-> TRUE, message |-> "timeout"],
      [instanceofError |-> TRUE, message |-> "schema mismatch"],
      [instanceofError |-> FALSE, value |-> "aborted"] }

\* the arguments of generateBlogPost after its defaults
generateBlogPostArgs(p) ==
    [topic |-> p.topic,
     keyword |-> p.keyword,
     tone |-> Field(p, "tone", "professional"),
     audience |-> Field(p, "audience", "general audience"),
     includeData |-> Field(p, "includeData", TRUE),
     wordCount |-> Field(p, "wordCount", TARGET_WORD_COUNT)]

\* what generateBlogPost returns once generateObject has resolved with object
generateBlogPost(object) ==
    [f \in DOMAIN object \cup {"generatedAt"} |->
        CASE f = "readabilityScore" -> calculateReadability(object.content)
          [] f = "wordCount" -> Len(split(object.content, WhiteSpace))
          [] f = "generatedAt" -> "now"
          [] OTHER -> object[f]]

\* item.tone || 'professional'
toneOf(item) ==
    IF "tone" \in DOMAIN item /\ item.tone # "" THEN item.tone ELSE "professional"

\* the call generateBulkPosts makes for an item
bulkCallArgs(p, item) ==
    generateBlogPostArgs(
        [topic |-> item.topic, keyword |-> item.keyword, tone |-> toneOf(item),
         audience |-> Field(p, "audience", "general audience"),
         includeData |-> Field(p, "includeData", TRUE)])

MaxTopics == 3

TopicItems ==
    { [topic |-> "a", keyword |-> KeywordSeo, tone |-> "casual"],
      [topic |-> "b", keyword |-> <<"x">>] }

BulkParams ==
    { [topics |-> ts] @@ opt :
        ts \in SeqsUpTo(TopicItems, MaxTopics),
        opt \in { [f \in {} |-> TRUE], [audience |-> "developers", includeData |-> FALSE] } }

InitBulk ==
    /\ pc = "for"
    /\ params \in BulkParams
    /\ result = None
    /\ i = 1
    /\ posts = <<>>
    /\ outcomes = <<>>
    /\ RouteIdle

\* for (const item of topics): the next item, and the call of generateBlogPost
BulkCall ==
    /\ pc = "for"
    /\ i <= Len(params.topics)
    /\ pc' = "await"
    /\ UNCHANGED <<params, result, i, posts, outcomes, routeVars>>

\* the call resolves: posts.push({ success: true, post })
BulkResolve ==
    /\ pc = "await"
    /\ \E object \in LLMObjects :
        /\ posts' = Append(posts, [success |-> TRUE, post |-> generateBlogPost(object)])
        /\ outcomes' = Append(outcomes,
               [args |-> bulkCallArgs(params, params.topics[i]), resolved |-> TRUE,
                value |-> generateBlogPost(object)])
    /\ i' = i + 1
    /\ pc' = "for"
    /\ UNCHANGED <<params, result, routeVars>>

\* no try/catch around the call: the rejection ends generateBulkPosts
BulkReject_aborts ==
    /\ pc = "await"
    /\ \E error \in ThrownValues :
        /\ result' = error
        /\ outcomes' = Append(outcomes,
               [args |-> bulkCallArgs(params, params.topics[i]), resolved |-> FALSE,
                value |-> error])
    /\ pc' = "bulk rejected"
    /\ UNCHANGED <<params, i, posts, routeVars>>

\* the call rejects: posts.push({ success: false, topic: item.topic, error })
BulkReject ==
    /\ pc = "await"
    /\ \E error \in ThrownValues :
        /\ posts' = Append(posts,
               [success |-> FALSE, topic |-> params.topics[i].topic, error |-> error])
        /\ outcomes' = Append(outcomes,
               [args |-> bulkCallArgs(params, params.topics[i]), resolved |-> FALSE,
                value |-> error])
    /\ i' = i + 1
    /\ pc' = "for"
    /\ UNCHANGED <<params, result, routeVars>>

\* return posts
BulkReturn ==
    /\ pc = "for"
    /\ i > Len(params.topics)
    /\ result' = posts
    /\ pc' = "bulk returned"
    /\ UNCHANGED <<params, i, posts, outcomes, routeVars>>

NextBulk == BulkCall \/ BulkResolve \/ BulkReject \/ BulkReturn

SpecBulk == InitBulk /\ [][NextBulk]_vars

\* C4: generateBulkPosts calls generateBlogPost once per item, one at a time
\* and in input order, whatever fails; it returns one result per item, in
\* input order: { success: true, post } with the item's post when its call
\* resolved, { success: false, topic, error } with the item's topic and the
\* thrown value when it rejected.
C4_BulkCollectsEveryItem ==
    /\ pc \in {"for", "await", "bulk returned"}
    /\ Len(posts) = Len(outcomes)
    /\ Len(outcomes) = i - 1
    /\ pc = "await" => i <= Len(params.topics)
    /\ \A k \in 1..Len(outcomes) :
           /\ outcomes[k].args.topic = params.topics[k].topic
           /\ outcomes[k].args.keyword = params.topics[k].keyword
           /\ posts[k].success = outcomes[k].resolved
           /\ outcomes[k].resolved => posts[k] = [success |-> TRUE, post |-> outcomes[k].value]
           /\ ~outcomes[k].resolved =>
                  posts[k] = [success |-> FALSE, topic |-> params.topics[k].topic,
                              error |-> outcomes[k].value]
    /\ pc = "bulk returned" =>
           /\ result = posts
           /\ Len(result) = Len(params.topics)

\* three topics, the second fails
C4_Witness ==
    /\ pc = "bulk returned"
    /\ Len(params.topics) = 3
    /\ result[1].success /\ ~result[2].success /\ result[3].success
    /\ result[2].topic = params.topics[2].topic

(***************************************************************************)
(* app/api/generate/blog-post/route.ts: POST                               *)
(***************************************************************************)
\* The request: its body is no JSON (req.json() rejects), is the JSON value
\* null, or is a JSON object with any of topic, keyword, tone, wordCount.
RequestBodies ==
    { [f \in fs |-> CASE f = "topic" -> topic
                      [] f = "keyword" -> keyword
                      [] f = "tone" -> "casual"
                      [] f = "wordCount" -> 1500] :
        fs \in SUBSET {"topic", "keyword", "tone", "wordCount"},
        topic \in {"", "a", "b"},
        keyword \in {<<>>, KeywordSeo, <<"x">>} }

Requests ==
    { [json |-> "malformed"], [json |-> "null"] }
    \cup { [json |-> "object", body |-> b] : b \in RequestBodies }

\* !value of a destructured field: it is undefined (omitted) or empty
falsy(body, name, empty) == IF name \in DOMAIN body THEN body[name] = empty ELSE TRUE

\* only undefined taken as missing, the empty string let through
missingRequired_undefinedOnly(body) ==
    IF "topic" \notin DOMAIN body THEN TRUE ELSE "keyword" \notin DOMAIN body

\* !topic || !keyword
missingRequired(body) ==
    IF falsy(body, "topic", "") THEN TRUE ELSE falsy(body, "keyword", <<>>)

\* error instanceof Error ? error.message : 'Failed to generate blog post'
errorMessage(error) ==
    IF error.instanceofError THEN error.message ELSE "Failed to generate blog post"

\* the catch block
catch(error) ==
    [status |-> 500, body |-> [success |-> FALSE, error |-> errorMessage(error)]]

InitRoute ==
    /\ pc = "await req.json"
    /\ params \in Requests
    /\ result = None
    /\ generated = [state |-> "not called"]
    /\ calls = [generate |-> 0, analyze |-> 0]
    /\ response = None
    /\ BulkIdle

\* req.json() rejects: the body is no JSON
RouteJsonRejects ==
    /\ pc = "await req.json"
    /\ params.json = "malformed"
    /\ response' = catch([instanceofError |-> TRUE, message |-> "Unexpected token in JSON"])
    /\ pc' = "responded"
    /\ UNCHANGED <<params, result, generated, calls, bulkVars>>

\* the body is null: destructuring it throws a TypeError
RouteDestructureThrows ==
    /\ pc = "await req.json"
    /\ params.json = "null"
    /\ response' = catch([instanceofError |-> TRUE,
                          message |-> "Cannot destructure property 'topic' of 'body' as it is null"])
    /\ pc' = "responded"
    /\ UNCHANGED <<params, result, generated, calls, bulkVars>>

\* topic or keyword is missing: the 400 response
RouteValidationFails ==
    /\ pc = "await req.json"
    /\ params.json = "object"
    /\ missingRequired(params.body)
    /\ response' = [status |-> 400,
                    body |-> [error |-> "Missing required fields: topic and keyword are required"]]
    /\ pc' = "responded"
    /\ UNCHANGED <<params, result, generated, calls, bulkVars>>

\* the body is valid: generateBlogPost is called and awaited
RouteCallsGenerate ==
    /\ pc = "await req.json"
    /\ params.json = "object"
    /\ ~missingRequired(params.body)
    /\ calls' = [calls EXCEPT !.generate = @ + 1]
    /\ generated' = [state |-> "pending", args |-> generateBlogPostArgs(params.body)]
    /\ pc' = "await generateBlogPost"
    /\ UNCHANGED <<params, result, response, bulkVars>>

\* generateBlogPost resolves: analyzeSEO, then the success response
RouteGenerateResolves ==
    /\ pc = "await generateBlogPost"
    /\ \E object \in LLMObjects :
        LET generatedPost == generateBlogPost(object)
            seoAnalysis == analyzeSEO(
                [content |-> generatedPost.content,
                 title |-> generatedPost.title,
                 metaDescription |-> generatedPost.metaDescription,
                 keyword |-> params.body.keyword,
                 headings |-> generatedPost.headings,
                 wordCount |-> generatedPost.wordCount,
                 readabilityScore |-> generatedPost.readabilityScore,
                 faqs |-> generatedPost.faqs,
                 internalLinks |-> generatedPost.internalLinks,
                 externalLinks |-> generatedPost.externalLinks])
        IN  /\ generated' = [state |-> "resolved", args |-> generated.args,
                             value |-> generatedPost]
            /\ response' = [status |-> 200,
                            body |-> [success |-> TRUE, post |-> generatedPost,
                                      seo |-> seoAnalysis]]
    /\ calls' = [calls EXCEPT !.analyze = @ + 1]
    /\ pc' = "responded"
    /\ UNCHANGED <<params, result, bulkVars>>

\* a second attempt after a failure
RouteGenerateRejects_retries ==
    /\ pc = "await generateBlogPost"
    /\ calls.generate < 2
    /\ calls' = [calls EXCEPT !.generate = @ + 1]
    /\ UNCHANGED <<pc, params, result, generated, response, bulkVars>>

\* generateBlogPost rejects: the catch block answers
RouteGenerateRejects ==
    /\ pc = "await generateBlogPost"
    /\ \E error \in ThrownValues :
        /\ generated' = [state |-> "rejected", args |-> generated.args, value |-> error]
        /\ response' = catch(error)
    /\ pc' = "responded"
    /\ UNCHANGED <<params, result, calls, bulkVars>>

NextRoute ==
    \/ RouteJsonRejects
    \/ RouteDestructureThrows
    \/ RouteValidationFails
    \/ RouteCallsGenerate
    \/ RouteGenerateResolves
    \/ RouteGenerateRejects

SpecRoute == InitRoute /\ [][NextRoute]_vars

Responded == pc = "responded"

\* the parsed body is an object without a topic or without a keyword
LacksTopicOrKeyword ==
    /\ params.json = "object"
    /\ \/ "topic" \notin DOMAIN params.body
       \/ "keyword" \notin DOMAIN params.body
       \/ Field(params.body, "topic", "") = ""
       \/ Field(params.body, "keyword", <<>>) = <<>>

C6_TwoResponseShapes ==
    Responded =>
        \/ /\ DOMAIN response.body = {"success", "post", "seo"}
           /\ response.body.success = TRUE
        \/ /\ DOMAIN response.body = {"success", "error"}
           /\ response.body.success = FALSE

GenerationFailed == generated.state = "rejected"

\* C10: within a request generateBlogPost is invoked at most once and
\* analyzeSEO at most once, the latter only once generateBlogPost has
\* resolved; when generateBlogPost fails analyzeSEO is never invoked and the
\* request ends with a failure response that carries the error's reason (the
\* message of the Error thrown).
C10_GenerateOnceThenAnalyze ==
    /\ calls.generate \in {0, 1}
    /\ calls.analyze \in {0, 1}
    /\ calls.analyze = 1 =>
           /\ calls.generate = 1
           /\ generated.state = "resolved"
    /\ pc = "await generateBlogPost" => calls.generate = 1 /\ calls.analyze = 0
    /\ GenerationFailed =>
           /\ calls.analyze = 0
           /\ Responded
           /\ DOMAIN response.body = {"success", "error"}
           /\ response.body.success = FALSE
           /\ generated.value.instanceofError =>
                  response.body.error = generated.value.message

\* generation timed out: one call, no analysis, "timeout" in the response
C10_Witness ==
    /\ Responded
    /\ GenerationFailed
    /\ generated.value = [instanceofError |-> TRUE, message |-> "timeout"]
    /\ response.body = [success |-> FALSE, error |-> "timeout"]
    /\ calls = [generate |-> 1, analyze |-> 0]

(***************************************************************************)
(* lib/ai/blog-generator.ts: improveReadability                            *)
(*                                                                         *)
(* The call of the language model (generateText) is the environment: it    *)
(* resolves with a text or rejects with a thrown value, and nothing        *)
(* catches the rejection.  A target score is a JavaScript number: an       *)
(* integer, or NaN, with which every comparison is false.                  *)
(***************************************************************************)
Num(n) == [isNaN |-> FALSE, value |-> n]
NaN == [isNaN |-> TRUE]

\* targetScore: number = 70
targetScoreOf(p) == Field(p, "targetScore", Num(70))

\* currentScore >= targetScore
greaterOrEqual(currentScore, targetScore) ==
    IF targetScore.isNaN THEN FALSE ELSE currentScore >= targetScore.value

\* the arguments of generateText: the model, the values interpolated into the
\* prompt, and the temperature (in tenths)
generateTextArgs(p) ==
    [model |-> "gemini-1.5-pro",
     prompt |-> [targetScore |-> targetScoreOf(p),
                 currentScore |-> calculateReadability(p.content),
                 content |-> p.content],
     temperature |-> 3]

MaxImproveLen == 5

ImproveContents == SeqsUpTo({"A", "b", " ", "."}, MaxImproveLen)

\* targets at, just above and beyond the scores the short texts have (0, 37, 79, 100)
TargetScores == {Num(0), Num(37), Num(38), Num(101), NaN}

ImproveParams ==
    { [content |-> c] : c \in ImproveContents } \cup
    { [content |-> c, targetScore |-> t] : c \in ImproveContents, t \in TargetScores }

\* texts the model may answer with
LLMTexts == { <<"A", ".">>, <<"A", " ", "A", ".", "A">> }

InitImprove ==
    /\ pc = "improveReadability"
    /\ params \in ImproveParams
    /\ result = None
    /\ generated = [state |-> "not called"]
    /\ calls = [generateText |-> 0]
    /\ response = None
    /\ BulkIdle

\* if (currentScore >= targetScore) return content
ImproveReturnsContent ==
    /\ pc = "improveReadability"
    /\ greaterOrEqual(calculateReadability(params.content), targetScoreOf(params))
    /\ result' = params.content
    /\ pc' = "improved"
    /\ UNCHANGED <<params, bulkVars, routeVars>>

\* the comparison strict: the model is asked also when the score equals the target
ImproveCallsGenerateText_atTarget ==
    /\ pc = "improveReadability"
    /\ IF targetScoreOf(params).isNaN THEN TRUE
       ELSE calculateReadability(params.content) <= targetScoreOf(params).value
    /\ generated' = [state |-> "pending", args |-> generateTextArgs(params)]
    /\ calls' = [calls EXCEPT !.generateText = @ + 1]
    /\ pc' = "await generateText"
    /\ UNCHANGED <<params, result, response, bulkVars>>

\* otherwise: await generateText({ model, prompt, temperature })
ImproveCallsGenerateText ==
    /\ pc = "improveReadability"
    /\ ~greaterOrEqual(calculateReadability(params.content), targetScoreOf(params))
    /\ generated' = [state |-> "pending", args |-> generateTextArgs(params)]
    /\ calls' = [calls EXCEPT !.generateText = @ + 1]
    /\ pc' = "await generateText"
    /\ UNCHANGED <<params, result, response, bulkVars>>

\* generateText resolves: return text
ImproveGenerateTextResolves ==
    /\ pc = "await generateText"
    /\ \E text \in LLMTexts :
        /\ generated' = [generated EXCEPT !.state = "resolved"] @@ [value |-> text]
        /\ result' = text
    /\ pc' = "improved"
    /\ UNCHANGED <<params, calls, response, bulkVars>>

\* generateText rejects: the promise of improveReadability rejects with the same value
ImproveGenerateTextRejects ==
    /\ pc = "await generateText"
    /\ \E error \in ThrownValues :
        /\ generated' = [generated EXCEPT !.state = "rejected"] @@ [value |-> error]
        /\ result' = error
    /\ pc' = "improve rejected"
    /\ UNCHANGED <<params, calls, response, bulkVars>>

NextImprove ==
    \/ ImproveReturnsContent
    \/ ImproveCallsGenerateText
    \/ ImproveGenerateTextResolves
    \/ ImproveGenerateTextRejects

SpecImprove == InitImprove /\ [][NextImprove]_vars

\* the target score of the call under way: the one given, 70 when omitted
GivenTarget == IF "targetScore" \in DOMAIN params THEN params.targetScore ELSE Num(70)

AlreadyReadable ==
    /\ ~GivenTarget.isNaN
    /\ calculateReadability(params.content) >= GivenTarget.value

BelowTarget ==
    /\ ~GivenTarget.isNaN
    /\ calculateReadability(params.content) < GivenTarget.value

ImproveSettled == pc \in {"improved", "improve rejected"}

\* C11: improveReadability(content, targetScore) makes no call to the language
\* model and returns the content unchanged whenever the computed readability
\* of content is already >= targetScore (70 when omitted); the model is called
\* only when the computed readability is below targetScore, and then exactly
\* once.  (targetScore a number that compares: for NaN, which is neither
\* below nor above any score, the code takes the branch that calls the model.)
C11_CallsModelOnlyBelowTarget ==
    /\ calls.generateText \in {0, 1}
    /\ AlreadyReadable =>
           /\ calls.generateText = 0
           /\ generated.state = "not called"
           /\ pc \in {"improveReadability", "improved"}
           /\ pc = "improved" => result = params.content
    /\ (calls.generateText = 1 /\ ~GivenTarget.isNaN) => BelowTarget
    /\ (BelowTarget /\ pc # "improveReadability") =>
           /\ calls.generateText = 1
           /\ generated.args.prompt.content = params.content
    /\ (BelowTarget /\ pc = "improved") => result = generated.value

\* "A A.A" reads 79, the target is left at 70: returned as it is, the model not asked
C11_Witness ==
    /\ pc = "improved"
    /\ params = [content |-> <<"A", " ", "A", ".", "A">>]
    /\ calculateReadability(params.content) = 79
    /\ result = params.content
    /\ calls.generateText = 0

====
